---- MODULE Spec2Model ----
(***************************************************************************)
(* A model of src/server.rs: the life cycle of the CRI server.             *)
(*                                                                         *)
(* Server::start runs, in order: set_logging_verbosity, the opening of the *)
(* key-value storage, unix_domain_listener (absolute-path check, removal   *)
(* of a stale entry or creation of the socket directory, bind), the arming *)
(* of the terminate and the interrupt signal watch, the three-way          *)
(* tokio::select! race of the serve loop against the two watches, and      *)
(* cleanup (storage.persist, then removal of the socket path).             *)
(*                                                                         *)
(* The filesystem is a map from paths to entry kinds; every call into the  *)
(* environment (storage, filesystem, signal registration) may fail, as the *)
(* `?` after each of them in the source allows.                            *)
(***************************************************************************)
EXTENDS Naturals, Sequences, FiniteSets

\* ------------------------------------------------------------------ bounds

\* Path components the model's paths are built from.
Names == {"run", "cri"}

\* The longest path, in components.
MaxDepth == 3

\* The most entries (besides the root directory) that exist before the
\* process starts.
MaxEntries == 2

\* The most Server::start invocations in one process.
MaxRuns == 2

\* The most requests the serve loop handles in one run.
MaxRequests == 1

\* ------------------------------------------------------------- filesystem

\* Absolute locations: sequences of components below the root <<>>.
Paths == UNION {[1..n -> Names] : n \in 0..MaxDepth}

Root == <<>>

\* Kinds of a filesystem entry. "link" is a dangling symbolic link: an
\* entry for which Path::exists answers false.
EntryKinds == {"file", "dir", "sock", "link"}

Kinds == EntryKinds \cup {"none"}

Parent(p) == SubSeq(p, 1, Len(p) - 1)

Prefixes(p) == {SubSeq(p, 1, k) : k \in 0..Len(p)}

\* Every entry lies in a directory, and the root is a directory.
WellFormed(f) ==
    /\ f[Root] = "dir"
    /\ \A p \in Paths \ {Root} : f[p] # "none" => f[Parent(p)] = "dir"

\* Path::exists follows symbolic links and answers false for a dangling one.
PathExists(f, p) == f[p] \notin {"none", "link"}

\* Path::is_dir.
IsDir(f, p) == f[p] = "dir"

\* The outcomes of fs::remove_file(p): it removes a non-directory entry, and
\* fails on a directory, on a missing entry, or for a reason of the
\* environment's (permissions, I/O).
RemoveFileOutcomes(f, p) ==
    {[fs |-> f, ok |-> FALSE]}
    \cup (IF f[p] \in {"file", "sock", "link"}
          THEN {[fs |-> [f EXCEPT ![p] = "none"], ok |-> TRUE]}
          ELSE {})

\* The directories create_dir_all(d) has to create, from the top.
MissingDirs(f, d) == {q \in Prefixes(d) : f[q] = "none"}

\* The outcomes of fs::create_dir_all(d). An existing directory is a success
\* that changes nothing. A non-directory on the way is a failure that changes
\* nothing. Otherwise the missing directories are created from the top down,
\* and the call may fail after any number of them.
CreateDirAllOutcomes(f, d) ==
    IF IsDir(f, d) THEN {[fs |-> f, ok |-> TRUE]}
    ELSE IF \E q \in Prefixes(d) : f[q] \notin {"dir", "none"}
    THEN {[fs |-> f, ok |-> FALSE]}
    ELSE LET missing == MissingDirs(f, d)
             top == Len(d) - Cardinality(missing)
             Made(j) == [q \in Paths |->
                            IF q \in missing /\ Len(q) <= top + j
                            THEN "dir" ELSE f[q]]
         IN  {[fs |-> Made(j), ok |-> FALSE] : j \in 0..(Cardinality(missing) - 1)}
             \cup {[fs |-> Made(Cardinality(missing)), ok |-> TRUE]}

\* The outcomes of UnixListener::bind(p): it creates a socket entry at a free
\* location inside a directory; it fails when the location is taken
\* (EADDRINUSE), when its directory is missing, or for a reason of the
\* environment's.
BindOutcomes(f, p) ==
    {[fs |-> f, ok |-> FALSE]}
    \cup (IF p # Root /\ f[p] = "none" /\ IsDir(f, Parent(p))
          THEN {[fs |-> [f EXCEPT ![p] = "sock"], ok |-> TRUE]}
          ELSE {})

\* The filesystems the process may find at its start.
MkFs(E, k) == [p \in Paths |-> IF p = Root THEN "dir"
                               ELSE IF p \in E THEN k[p] ELSE "none"]

InitialFs ==
    UNION {
        LET E == {e[i] : i \in 1..MaxEntries} \ {Root}
        IN  {g \in {MkFs(E, k) : k \in [E -> EntryKinds]} : WellFormed(g)}
        : e \in [1..MaxEntries -> Paths]}

\* ------------------------------------------------------------------ state

Signals == {"terminate", "interrupt"}

\* The socket paths a configuration may name: absolute or relative, of any
\* depth. A relative path is resolved against the root directory.
SockPaths == [abs : BOOLEAN, comps : Paths]

\* ----------------------------------------------------------------- logging

\* LogScope: Global, or the scope of this crate alone.
LogScopes == {"Global", "Crate"}

\* The log levels, in the order of their verbosity.
LogLevels == <<"OFF", "ERROR", "WARN", "INFO", "DEBUG", "TRACE">>

LevelNames == {LogLevels[i] : i \in DOMAIN LogLevels}

\* The verbosity of a level: its place in LogLevels.
Verbosity(l) == CHOOSE i \in DOMAIN LogLevels : LogLevels[i] = l

\* crate_name!()
CrateName == "cri"

\* A filter that names the level alone, whatever the scope.
GlobalFilterOnly(scope, level) == <<level>>

\* The value set_logging_verbosity gives RUST_LOG, as the sequence of its
\* parts: the level for the Global scope, "<crate name>=<level>" otherwise.
ResolveFilter(scope, level) ==
    IF scope = "Global" THEN <<level>> ELSE <<CrateName, "=", level>>

\* env_logger's reading of a filter: a bare level holds for every module, and
\* "<module>=<level>" for that module (and the modules inside it) alone.
ParseFilter(f) ==
    IF Len(f) = 3 /\ f[2] = "="
    THEN [module |-> f[1], level |-> f[3]]
    ELSE [module |-> "", level |-> f[1]]

\* The module a record of server.rs comes from: <crate>::server.
ServerTarget == <<CrateName, "server">>

\* Whether a logger built from filter f emits a record of the given level
\* from the given module.
LogEnabled(f, target, level) ==
    LET d == ParseFilter(f)
    IN  /\ d.module = "" \/ d.module = target[1]
        /\ Verbosity(level) <= Verbosity(d.level)

\* --------------------------------------------------------------- requests

\* The two service groups start registers, each behind the interceptor.
Services == {"runtime", "image"}

\* What tells one Request<()> from another: its metadata.
Metadata == {"plain", "traced"}

Requests == [service : Services, metadata : Metadata]

\* An interceptor that hands on a request without its metadata.
InterceptStripsMetadata(req) ==
    [status |-> "ok", request |-> [req EXCEPT !.metadata = "plain"]]

\* Server::intercept: Ok(req).
Intercept(req) == [status |-> "ok", request |-> req]

\* The configurations and the client traffic the life-cycle claims are
\* checked with: one logging configuration and one kind of request.
DefaultLogging == [scope : {"Crate"}, level : {"DEBUG"}]

DefaultTraffic ==
    {[i \in 1..MaxRequests |-> [service |-> "runtime", metadata |-> "plain"]]}

\* Every logging configuration, and every sequence of requests.
AllLogging == [scope : LogScopes, level : LevelNames]

AllTraffic == UNION {[1..n -> Requests] : n \in 0..MaxRequests}

VARIABLES
    fs,         \* the filesystem: [Paths -> Kinds]
    fs0,        \* the filesystem when the current Server::start began
    config,     \* the Config: [sock_path, log_scope, log_level]
    loggerSet,  \* a global logger is installed in this process
    runs,       \* Server::start invocations so far
    pc,         \* the position of Server::start
    storage,    \* "closed", "open", "dropped"
    listener,   \* the UnixListener `uds` is bound and alive
    armed,      \* the signal watches that exist
    pending,    \* the signals delivered to a watch and not yet received
    serve,      \* the serve loop: "idle", "accepting", "ended_ok", "ended_err", "dropped"
    winner,     \* the branch of select! that completed: "none", "serve", or a signal
    served,     \* requests handled by the serve loop in this run
    delivered,  \* the signals delivered in this run while the serve loop was accepting
    ops,        \* the calls into the environment made by this run, in order
    result,     \* what Server::start returned: "none", "ok", "err"
    rustLog,    \* the RUST_LOG environment variable: a filter, or <<>> when unset
    logFilter,  \* the filter the installed logger was built from
    inbox,      \* the requests in flight from the clients to the socket
    handled,    \* the interceptor's invocations: what it was given and what it returned
    diag,       \* the diagnostic records the interceptor's debug! emitted
    discarded   \* select! dropped a serve loop that had failed, its error unread

vars == <<fs, fs0, config, loggerSet, runs, pc, storage, listener, armed,
          pending, serve, winner, served, delivered, ops, result,
          rustLog, logFilter, inbox, handled, diag, discarded>>

\* The state of the logging configuration, and of the request traffic.
logVars == <<rustLog, logFilter>>

reqVars == <<inbox, handled, diag>>

sock_path == config.sock_path

\* The location a socket path names.
Loc(sp) == sp.comps

Did(name, ok) == Append(ops, <<name, ok>>)

Called(name) == \E i \in 1..Len(ops) : ops[i][1] = name

Calls(name) == Cardinality({i \in 1..Len(ops) : ops[i][1] = name})

Succeeded(name) == \E i \in 1..Len(ops) : ops[i] = <<name, TRUE>>

Failed(name) == \E i \in 1..Len(ops) : ops[i] = <<name, FALSE>>

\* The state when Server::new(config) has been called in a fresh process,
\* for the given filesystems, socket paths, logging configurations and
\* client traffic.
InitOver(F, P, L, T) ==
    /\ fs \in F
    /\ fs0 = fs
    /\ config \in {[sock_path |-> sp, log_scope |-> l.scope, log_level |-> l.level] :
                      sp \in P, l \in L}
    /\ rustLog = <<>>
    /\ logFilter = <<>>
    /\ inbox \in T
    /\ handled = <<>>
    /\ diag = <<>>
    /\ discarded = FALSE
    /\ loggerSet = FALSE
    /\ runs = 0
    /\ pc = "new"
    /\ storage = "closed"
    /\ listener = FALSE
    /\ armed = {}
    /\ pending = {}
    /\ serve = "idle"
    /\ winner = "none"
    /\ served = 0
    /\ delivered = {}
    /\ ops = <<>>
    /\ result = "none"

Init == InitOver(InitialFs, SockPaths, DefaultLogging, DefaultTraffic)

\* Server::start returns: its locals (the storage handle, the listener, the
\* signal watches, the serve future) are dropped.
Return(r) ==
    /\ pc' = "returned"
    /\ result' = r
    /\ storage' = IF storage = "open" THEN "dropped" ELSE storage
    /\ listener' = FALSE
    /\ armed' = {}
    /\ pending' = {}
    /\ serve' = IF serve = "idle" THEN "idle" ELSE "dropped"

\* Server::new(config).start() is called: in a fresh process, or again after
\* an earlier start of this process returned.
Start ==
    /\ pc \in {"new", "returned"}
    /\ runs < MaxRuns
    /\ runs' = runs + 1
    /\ pc' = "logging"
    /\ fs0' = fs
    /\ storage' = "closed"
    /\ serve' = "idle"
    /\ winner' = "none"
    /\ served' = 0
    /\ delivered' = {}
    /\ ops' = <<>>
    /\ result' = "none"
    /\ UNCHANGED <<fs, config, loggerSet, listener, armed, pending>>
    /\ discarded' = FALSE
    /\ UNCHANGED <<logVars, reqVars>>

\* set_logging_verbosity: RUST_LOG is set to the resolved filter, and
\* env_logger::try_init builds the logger from it; try_init fails when a
\* global logger is already installed, and start returns that error.
SetLoggingVerbosity ==
    /\ pc = "logging"
    /\ rustLog' = ResolveFilter(config.log_scope, config.log_level)
    /\ IF loggerSet
       THEN /\ ops' = Did("try_init", FALSE)
            /\ Return("err")
            /\ UNCHANGED <<loggerSet, logFilter>>
       ELSE /\ ops' = Did("try_init", TRUE)
            /\ loggerSet' = TRUE
            /\ logFilter' = rustLog'
            /\ pc' = "open"
            /\ UNCHANGED <<result, storage, listener, armed, pending, serve>>
    /\ UNCHANGED <<fs, fs0, config, runs, winner, served, delivered>>
    /\ UNCHANGED <<reqVars, discarded>>

\* DefaultKeyValueStorage::open without the `?`: start goes on to the listener
\* whether or not the storage was opened.
StorageOpenUnchecked ==
    /\ pc = "open"
    /\ \E ok \in BOOLEAN :
        /\ ops' = Did("open", ok)
        /\ storage' = IF ok THEN "open" ELSE storage
        /\ pc' = "udl"
        /\ UNCHANGED <<result, listener, armed, pending, serve>>
    /\ UNCHANGED <<fs, fs0, config, loggerSet, runs, winner, served, delivered>>
    /\ UNCHANGED <<logVars, reqVars, discarded>>

\* DefaultKeyValueStorage::open(...)?
StorageOpen ==
    /\ pc = "open"
    /\ \E ok \in BOOLEAN :
        /\ ops' = Did("open", ok)
        /\ IF ok
           THEN /\ storage' = "open"
                /\ pc' = "udl"
                /\ UNCHANGED <<result, listener, armed, pending, serve>>
           ELSE Return("err")
    /\ UNCHANGED <<fs, fs0, config, loggerSet, runs, winner, served, delivered>>
    /\ UNCHANGED <<logVars, reqVars, discarded>>

\* A check that takes every path for absolute.
IsAbsoluteAlways(sp) == TRUE

\* Path::is_absolute.
IsAbsolute(sp) == sp.abs

\* unix_domain_listener, up to its first call into the filesystem: a relative
\* socket path is refused; an existing entry is to be removed; otherwise the
\* socket directory is to be created.
UdlEnter ==
    /\ pc = "udl"
    /\ IF ~IsAbsolute(sock_path)
       THEN Return("err")
       ELSE /\ pc' = IF PathExists(fs, Loc(sock_path)) THEN "udl_remove" ELSE "udl_mkdir"
            /\ UNCHANGED <<result, storage, listener, armed, pending, serve>>
    /\ UNCHANGED <<fs, fs0, config, loggerSet, runs, winner, served, delivered, ops>>
    /\ UNCHANGED <<logVars, reqVars, discarded>>

\* fs::remove_file without the `?`: its error is dropped and the bind follows.
UdlAfterRemoveUnchecked(ok) ==
    /\ pc' = "udl_bind"
    /\ UNCHANGED <<result, storage, listener, armed, pending, serve>>

\* The `?` after fs::remove_file: an error ends unix_domain_listener, and with
\* it start.
UdlAfterRemove(ok) ==
    IF ok
    THEN /\ pc' = "udl_bind"
         /\ UNCHANGED <<result, storage, listener, armed, pending, serve>>
    ELSE Return("err")

\* fs::remove_file(sock_path) of the entry found at the socket path.
UdlRemoveStale ==
    /\ pc = "udl_remove"
    /\ \E o \in RemoveFileOutcomes(fs, Loc(sock_path)) :
        /\ fs' = o.fs
        /\ ops' = Did("remove_stale", o.ok)
        /\ UdlAfterRemove(o.ok)
    /\ UNCHANGED <<fs0, config, loggerSet, runs, winner, served, delivered>>
    /\ UNCHANGED <<logVars, reqVars, discarded>>

\* create_dir_all handed the socket path itself.
SockDirIsSockPath(sp) == Loc(sp)

\* The directory handed to create_dir_all: sock_path.parent().
SockDir(sp) == Parent(Loc(sp))

\* fs::create_dir_all without the `?`: its error is dropped and the bind
\* follows.
UdlAfterCreateDirUnchecked(ok) ==
    /\ pc' = "udl_bind"
    /\ UNCHANGED <<result, storage, listener, armed, pending, serve>>

\* The `?` after fs::create_dir_all.
UdlAfterCreateDir(ok) ==
    IF ok
    THEN /\ pc' = "udl_bind"
         /\ UNCHANGED <<result, storage, listener, armed, pending, serve>>
    ELSE Return("err")

\* fs::create_dir_all(sock_dir). Only the root has no parent, and the root
\* exists, so sock_path.parent() is never None here.
UdlCreateDir ==
    /\ pc = "udl_mkdir"
    /\ IF Loc(sock_path) = Root
       THEN /\ Return("err")
            /\ UNCHANGED <<fs, ops>>
       ELSE \E o \in CreateDirAllOutcomes(fs, SockDir(sock_path)) :
                /\ fs' = o.fs
                /\ ops' = Did("create_dir_all", o.ok)
                /\ UdlAfterCreateDir(o.ok)
    /\ UNCHANGED <<fs0, config, loggerSet, runs, winner, served, delivered>>
    /\ UNCHANGED <<logVars, reqVars, discarded>>

\* UnixListener::bind(sock_path)?
UdlBind ==
    /\ pc = "udl_bind"
    /\ \E o \in BindOutcomes(fs, Loc(sock_path)) :
        /\ fs' = o.fs
        /\ ops' = Did("bind", o.ok)
        /\ IF o.ok
           THEN /\ listener' = TRUE
                /\ pc' = "arm_terminate"
                /\ UNCHANGED <<result, storage, armed, pending, serve>>
           ELSE Return("err")
    /\ UNCHANGED <<fs0, config, loggerSet, runs, winner, served, delivered>>
    /\ UNCHANGED <<logVars, reqVars, discarded>>

\* signal(SignalKind::terminate())?
ArmTerminate ==
    /\ pc = "arm_terminate"
    /\ \E ok \in BOOLEAN :
        /\ ops' = Did("arm_terminate", ok)
        /\ IF ok
           THEN /\ armed' = armed \cup {"terminate"}
                /\ pc' = "arm_interrupt"
                /\ UNCHANGED <<result, storage, listener, pending, serve>>
           ELSE Return("err")
    /\ UNCHANGED <<fs, fs0, config, loggerSet, runs, winner, served, delivered>>
    /\ UNCHANGED <<logVars, reqVars, discarded>>

\* A start that runs cleanup when the interrupt watch cannot be armed.
ArmInterruptCleansUp ==
    /\ pc = "arm_interrupt"
    /\ \E ok \in BOOLEAN :
        /\ ops' = Did("arm_interrupt", ok)
        /\ IF ok
           THEN /\ armed' = armed \cup {"interrupt"}
                /\ pc' = "select"
                /\ UNCHANGED <<result, storage, listener, pending, serve>>
           ELSE /\ pc' = "cleanup_persist"
                /\ UNCHANGED <<result, storage, listener, armed, pending, serve>>
    /\ UNCHANGED <<fs, fs0, config, loggerSet, runs, winner, served, delivered>>
    /\ UNCHANGED <<logVars, reqVars, discarded>>

\* signal(SignalKind::interrupt())?
ArmInterrupt ==
    /\ pc = "arm_interrupt"
    /\ \E ok \in BOOLEAN :
        /\ ops' = Did("arm_interrupt", ok)
        /\ IF ok
           THEN /\ armed' = armed \cup {"interrupt"}
                /\ pc' = "select"
                /\ UNCHANGED <<result, storage, listener, pending, serve>>
           ELSE Return("err")
    /\ UNCHANGED <<fs, fs0, config, loggerSet, runs, winner, served, delivered>>
    /\ UNCHANGED <<logVars, reqVars, discarded>>

\* The operating system delivers a signal to its watch. A signal that
\* arrives while no watch exists is not seen by start, and neither is one
\* that arrives after select! has completed: no watch is polled again.
Signal(k) ==
    /\ pc \in {"arm_interrupt", "select"}
    /\ k \in armed
    /\ k \notin pending
    /\ pending' = pending \cup {k}
    /\ delivered' = IF serve = "accepting" THEN delivered \cup {k} ELSE delivered
    /\ UNCHANGED <<fs, fs0, config, loggerSet, runs, pc, storage, listener,
                   armed, serve, winner, served, ops, result>>
    /\ UNCHANGED <<logVars, reqVars, discarded>>

\* A serve loop that is started before the signal watches are armed.
BeginServeBeforeWatches ==
    /\ pc \in {"arm_terminate", "arm_interrupt", "select"}
    /\ serve = "idle"
    /\ serve' = "accepting"
    /\ UNCHANGED <<fs, fs0, config, loggerSet, runs, pc, storage, listener,
                   armed, pending, winner, served, delivered, ops, result>>
    /\ UNCHANGED <<logVars, reqVars, discarded>>

\* select! polls the serve future for the first time: the serve loop starts
\* accepting connections.
BeginServe ==
    /\ pc = "select"
    /\ serve = "idle"
    /\ serve' = "accepting"
    /\ UNCHANGED <<fs, fs0, config, loggerSet, runs, pc, storage, listener,
                   armed, pending, winner, served, delivered, ops, result>>
    /\ UNCHANGED <<logVars, reqVars, discarded>>

\* The serve loop takes one request off the socket: the service it is for
\* calls the interceptor, whose debug! emits a record when the logger's
\* filter lets it, and the handler gets what the interceptor returned.
ServeRequest ==
    /\ pc = "select"
    /\ serve = "accepting"
    /\ served < MaxRequests
    /\ inbox # <<>>
    /\ served' = served + 1
    /\ inbox' = Tail(inbox)
    /\ handled' = Append(handled, [given |-> Head(inbox), got |-> Intercept(Head(inbox))])
    /\ diag' = IF LogEnabled(logFilter, ServerTarget, "DEBUG")
               THEN Append(diag, Head(inbox))
               ELSE diag
    /\ UNCHANGED <<fs, fs0, config, loggerSet, runs, pc, storage, listener,
                   armed, pending, serve, winner, delivered, ops, result>>
    /\ UNCHANGED <<logVars, discarded>>

\* The serve loop ends: normally, or with a transport error.
ServeEnd ==
    /\ pc = "select"
    /\ serve = "accepting"
    /\ \E ok \in BOOLEAN : serve' = IF ok THEN "ended_ok" ELSE "ended_err"
    /\ UNCHANGED <<fs, fs0, config, loggerSet, runs, pc, storage, listener,
                   armed, pending, winner, served, delivered, ops, result>>
    /\ UNCHANGED <<logVars, reqVars, discarded>>

\* A cleanup that starts at the removal of the socket.
CleanupEntryAtRemoval == "cleanup_remove"

\* Where cleanup starts: at storage.persist().
CleanupEntry == "cleanup_persist"

\* A race whose losing serve future is kept and polled on.
AfterRaceKeepsServing(s) == s

\* The serve future once select! has completed: select! drops the futures of
\* all its branches before the winning branch's handler runs.
AfterRace(s) == "dropped"

\* A serve branch without the `?`: the transport error is dropped and cleanup
\* follows.
SelectServeSwallowsError ==
    /\ pc = "select"
    /\ serve \in {"ended_ok", "ended_err"}
    /\ winner' = "serve"
    /\ ops' = Did("serve", serve = "ended_ok")
    /\ pc' = CleanupEntry
    /\ serve' = AfterRace(serve)
    /\ UNCHANGED <<result, storage, listener, armed, pending>>
    /\ UNCHANGED <<fs, fs0, config, loggerSet, runs, served, delivered>>
    /\ UNCHANGED <<logVars, reqVars, discarded>>

\* The serve branch of select! completes: `res.context("run GRPC server")?`
\* returns a transport error from start; a normal end goes on to cleanup.
SelectServe ==
    /\ pc = "select"
    /\ serve \in {"ended_ok", "ended_err"}
    /\ winner' = "serve"
    /\ ops' = Did("serve", serve = "ended_ok")
    /\ IF serve = "ended_err"
       THEN Return("err")
       ELSE /\ pc' = CleanupEntry
            /\ serve' = AfterRace(serve)
            /\ UNCHANGED <<result, storage, listener, armed, pending>>
    /\ UNCHANGED <<fs, fs0, config, loggerSet, runs, served, delivered>>
    /\ UNCHANGED <<logVars, reqVars, discarded>>

\* A select! that polls its serve branch first: a signal wins only while the
\* serve loop has not ended.
SelectSignalAfterServe(k) ==
    /\ pc = "select"
    /\ k \in pending
    /\ serve \notin {"ended_ok", "ended_err"}
    /\ winner' = k
    /\ pending' = pending \ {k}
    /\ serve' = AfterRace(serve)
    /\ pc' = CleanupEntry
    /\ ops' = Did("recv", TRUE)
    /\ UNCHANGED <<fs, fs0, config, loggerSet, runs, storage, listener,
                   armed, served, delivered, result>>
    /\ discarded' = (serve = "ended_err")
    /\ UNCHANGED <<logVars, reqVars>>

\* A signal branch that receives the signal and goes on waiting.
SelectSignalIgnored(k) ==
    /\ pc = "select"
    /\ k \in pending
    /\ pending' = pending \ {k}
    /\ UNCHANGED <<fs, fs0, config, loggerSet, runs, pc, storage, listener,
                   armed, serve, winner, served, delivered, ops, result>>
    /\ UNCHANGED <<logVars, reqVars, discarded>>

\* A signal branch of select! completes: recv() yields the pending signal.
SelectSignal(k) ==
    /\ pc = "select"
    /\ k \in pending
    /\ winner' = k
    /\ pending' = pending \ {k}
    /\ serve' = AfterRace(serve)
    /\ pc' = CleanupEntry
    /\ ops' = Did("recv", TRUE)
    /\ UNCHANGED <<fs, fs0, config, loggerSet, runs, storage, listener,
                   armed, served, delivered, result>>
    /\ discarded' = (serve = "ended_err")
    /\ UNCHANGED <<logVars, reqVars>>

\* A cleanup that goes back to the race when persist fails.
CleanupPersistRetries ==
    /\ pc = "cleanup_persist"
    /\ \E ok \in BOOLEAN :
        /\ ops' = Did("persist", ok)
        /\ IF ok
           THEN /\ pc' = "cleanup_remove"
                /\ UNCHANGED <<result, storage, listener, armed, pending, serve>>
           ELSE /\ pc' = "select"
                /\ UNCHANGED <<result, storage, listener, armed, pending, serve>>
    /\ UNCHANGED <<fs, fs0, config, loggerSet, runs, winner, served, delivered>>
    /\ UNCHANGED <<logVars, reqVars, discarded>>

\* cleanup, step 1: storage.persist().context("persist storage")?
CleanupPersist ==
    /\ pc = "cleanup_persist"
    /\ \E ok \in BOOLEAN :
        /\ ops' = Did("persist", ok)
        /\ IF ok
           THEN /\ pc' = "cleanup_remove"
                /\ UNCHANGED <<result, storage, listener, armed, pending, serve>>
           ELSE Return("err")
    /\ UNCHANGED <<fs, fs0, config, loggerSet, runs, winner, served, delivered>>
    /\ UNCHANGED <<logVars, reqVars, discarded>>

\* cleanup, step 2: std::fs::remove_file(sock_path), whose result is the
\* result of cleanup and of start.
CleanupRemove ==
    /\ pc = "cleanup_remove"
    /\ \E o \in RemoveFileOutcomes(fs, Loc(sock_path)) :
        /\ fs' = o.fs
        /\ ops' = Did("remove_sock", o.ok)
        /\ Return(IF o.ok THEN "ok" ELSE "err")
    /\ UNCHANGED <<fs0, config, loggerSet, runs, winner, served, delivered>>
    /\ UNCHANGED <<logVars, reqVars, discarded>>

Next ==
    \/ Start
    \/ SetLoggingVerbosity
    \/ StorageOpen
    \/ UdlEnter
    \/ UdlRemoveStale
    \/ UdlCreateDir
    \/ UdlBind
    \/ ArmTerminate
    \/ ArmInterrupt
    \/ \E k \in Signals : Signal(k)
    \/ BeginServe
    \/ ServeRequest
    \/ ServeEnd
    \/ SelectServe
    \/ \E k \in Signals : SelectSignal(k)
    \/ CleanupPersist
    \/ CleanupRemove

Spec == Init /\ [][Next]_vars

\* The socket path of the second and the third specification, and their
\* filesystems: those with entries on the way to that path alone.
ServedSockPath == [abs |-> TRUE, comps |-> <<"run", "cri">>]

ServedFs ==
    {g \in InitialFs :
        \A p \in Paths : g[p] # "none" => p \in Prefixes(Loc(ServedSockPath))}

\* The server under every logging configuration and every client traffic.
InitRequests == InitOver(ServedFs, {ServedSockPath}, AllLogging, AllTraffic)

SpecRequests == InitRequests /\ [][Next]_vars

\* The server under fair scheduling: the task that runs start is polled
\* again once a branch of select! is ready, and cleanup, which does not
\* await, runs to its end.
InitFair == InitOver(ServedFs, {ServedSockPath}, DefaultLogging, DefaultTraffic)

FairSpec ==
    /\ InitFair
    /\ [][Next]_vars
    /\ WF_vars(SelectServe)
    /\ WF_vars(\E k \in Signals : SelectSignal(k))
    /\ WF_vars(CleanupPersist)
    /\ WF_vars(CleanupRemove)

\* Type correctness of the state.
TypeOK ==
    /\ fs \in [Paths -> Kinds]
    /\ WellFormed(fs)
    /\ runs \in 0..MaxRuns
    /\ served \in 0..MaxRequests
    /\ delivered \subseteq Signals
    /\ armed \subseteq Signals
    /\ pending \subseteq armed
    /\ winner \in {"none", "serve"} \cup Signals
    /\ result \in {"none", "ok", "err"}
    /\ config.log_scope \in LogScopes
    /\ config.log_level \in LevelNames
    /\ Len(handled) = served \/ runs > 1
    /\ discarded \in BOOLEAN

\* ----------------------------------------------------------------- claims

\* Every call named b in this run's log comes after a successful call named a.
Before(a, b) ==
    \A j \in 1..Len(ops) :
        ops[j][1] = b => \E i \in 1..(j - 1) : ops[i] = <<a, TRUE>>

\* unix_domain_listener was called in this run.
UdlReached == Succeeded("open")

\* unix_domain_listener was called in this run and has returned.
UdlReturned ==
    UdlReached /\ pc \notin {"udl", "udl_remove", "udl_mkdir", "udl_bind"}

\* select! was reached in this run.
RaceReached == Succeeded("arm_interrupt")

\* select! has completed in this run.
RaceResolved == winner # "none"

\* C1: in every run in which an interrupt or a terminate signal is delivered
\* while the serve loop is active, and in which no step of cleanup fails,
\* persist is called exactly once and, when start returns, nothing exists at
\* the socket path.
C1_SignalLeadsToCleanup ==
    (/\ pc = "returned"
     /\ delivered # {}
     /\ ~Failed("persist")
     /\ ~Failed("remove_sock"))
    => (Calls("persist") = 1 /\ fs[Loc(sock_path)] = "none")

\* C2: whenever cleanup ran and persist returned an error, the removal of the
\* socket path was still attempted before cleanup returned.
C2_PersistFailureKeepsRemoval ==
    (pc = "returned" /\ Failed("persist")) => Called("remove_sock")

\* C3: when the serve loop ended with a transport error, both steps of
\* cleanup were attempted before start returned.
C3_TransportErrorStillCleansUp ==
    (pc = "returned" /\ Failed("serve"))
    => (Called("persist") /\ Called("remove_sock"))

\* C4: in every execution of start that opened the storage, persist is
\* called exactly once, after the serve loop has stopped and before start
\* returns (which drops the handle). Stated for the executions that went on
\* to serve requests, the ones in which serving can stop.
C4_PersistExactlyOnce ==
    /\ (pc = "returned" /\ Succeeded("open") /\ RaceReached)
       => Calls("persist") = 1
    /\ Called("persist") => (RaceResolved /\ serve # "accepting")
    /\ Calls("persist") <= 1

\* C5: cleanup's steps run at most once each and only after exactly one
\* branch of the race has completed; persist and the removal of the socket
\* are never in progress, nor done, while the serve loop is still accepting.
C5_CleanupOnlyAfterRace ==
    /\ Calls("serve") + Calls("recv") <= 1
    /\ RaceResolved <=> (Calls("serve") + Calls("recv") = 1)
    /\ Calls("persist") <= 1
    /\ Calls("remove_sock") <= 1
    /\ (\/ pc \in {"cleanup_persist", "cleanup_remove"}
        \/ Called("persist")
        \/ Called("remove_sock"))
       => (RaceResolved /\ serve \notin {"accepting", "ended_ok", "ended_err", "idle"})
    /\ serve = "accepting" => (pc = "select" /\ ~RaceResolved)

\* C5's case: a signal won the race while the serve loop was accepting, and
\* cleanup is at its second step.
C5_Witness ==
    /\ pc = "cleanup_remove"
    /\ winner \in Signals
    /\ delivered # {}
    /\ served > 0

\* C6: for a relative socket path unix_domain_listener returns an error and
\* leaves the filesystem as it was: nothing removed, no directory created,
\* no socket bound.
C6_RelativePathRefused ==
    (UdlReached /\ ~sock_path.abs)
    => /\ fs = fs0
       /\ ~Called("remove_stale")
       /\ ~Called("create_dir_all")
       /\ ~Called("bind")
       /\ ~listener
       /\ pc \in {"udl", "returned"}
       /\ pc = "returned" => result = "err"

\* C6's case: start has returned the error of a relative socket path.
C6_Witness ==
    /\ UdlReturned
    /\ ~sock_path.abs
    /\ pc = "returned"
    /\ result = "err"
    /\ \E p \in Paths : fs[p] \in {"file", "sock"}

\* C7 as stated: for an absolute socket path at which an entry exists,
\* unix_domain_listener removes the entry, then binds and succeeds; if the
\* removal fails, the call fails and no bind is attempted.
C7_StaleEntryAlwaysRebound ==
    (/\ UdlReturned
     /\ sock_path.abs
     /\ PathExists(fs0, Loc(sock_path)))
    => IF Failed("remove_stale")
       THEN ~Called("bind") /\ result = "err"
       ELSE Before("remove_stale", "bind") /\ Succeeded("bind")

\* C7, amended: for an absolute socket path at which Path::exists finds an
\* entry, unix_domain_listener removes the entry first and only then
\* attempts the bind; if the removal fails, the call fails with no bind
\* attempted and the filesystem unchanged; if the bind succeeds, the call
\* succeeds and the new socket is the one entry at the path; if the bind
\* fails, the call fails and nothing is left at the path.
C7_StaleEntryRemovedBeforeBind ==
    (/\ UdlReached
     /\ pc # "udl"
     /\ sock_path.abs
     /\ PathExists(fs0, Loc(sock_path)))
    => /\ ~Called("create_dir_all")
       /\ pc = "udl_remove" \/ Called("remove_stale")
       /\ Before("remove_stale", "bind")
       /\ pc = "udl_bind" => (Succeeded("remove_stale") /\ fs[Loc(sock_path)] = "none")
       /\ Failed("remove_stale")
          => (~Called("bind") /\ pc = "returned" /\ result = "err" /\ fs = fs0)
       /\ (Succeeded("bind") /\ ~Succeeded("remove_sock"))
          => (fs[Loc(sock_path)] = "sock" /\ (listener \/ pc = "returned"))
       /\ Failed("bind")
          => (pc = "returned" /\ result = "err" /\ fs[Loc(sock_path)] = "none")
       /\ \A q \in Paths \ {Loc(sock_path)} : fs[q] = fs0[q]

\* C7's case: the entry found at the socket path was removed and the socket
\* bound in its place.
C7_Witness ==
    /\ pc = "arm_terminate"
    /\ sock_path.abs
    /\ fs0[Loc(sock_path)] = "file"
    /\ ops = <<<<"try_init", TRUE>>, <<"open", TRUE>>,
               <<"remove_stale", TRUE>>, <<"bind", TRUE>>>>
    /\ fs[Loc(sock_path)] = "sock"

\* The socket path is absolute, nothing is at it and its parent directory
\* exists.
FreeInExistingDir ==
    /\ sock_path.abs
    /\ Loc(sock_path) # Root
    /\ fs0[Loc(sock_path)] = "none"
    /\ IsDir(fs0, Parent(Loc(sock_path)))

\* C8 as stated: for an absolute socket path whose parent directory exists
\* and at which nothing exists, unix_domain_listener creates exactly one
\* entry, the socket, and no directory, and changes no other entry.
C8_ExactlyOneEntryCreated ==
    (UdlReturned /\ FreeInExistingDir /\ ~Called("remove_sock"))
    => /\ fs[Loc(sock_path)] = "sock"
       /\ \A q \in Paths \ {Loc(sock_path)} : fs[q] = fs0[q]

\* C8, amended: for an absolute socket path whose parent directory exists
\* and at which nothing exists, unix_domain_listener creates no directory
\* and changes no entry other than the socket path's; it creates exactly one
\* entry, the socket, when the bind succeeds, and none when the bind fails,
\* in which case the call fails.
C8_OnlyTheSocketIsCreated ==
    (UdlReached /\ FreeInExistingDir)
    => /\ \A q \in Paths \ {Loc(sock_path)} : fs[q] = fs0[q]
       /\ fs[Loc(sock_path)] \in {"none", "sock"}
       /\ ~Called("remove_stale")
       /\ Succeeded("create_dir_all") \/ pc \in {"udl", "udl_mkdir"}
       /\ (Succeeded("bind") /\ ~Succeeded("remove_sock")) => fs[Loc(sock_path)] = "sock"
       /\ (UdlReturned /\ ~Succeeded("bind"))
          => (Failed("bind") /\ fs = fs0 /\ pc = "returned" /\ result = "err")
       /\ ~Called("bind") => fs = fs0

\* C8's case: the socket was bound in its existing directory, among other
\* entries.
C8_Witness ==
    /\ pc = "arm_terminate"
    /\ FreeInExistingDir
    /\ fs[Loc(sock_path)] = "sock"
    /\ \E q \in Paths \ {Root} : fs0[q] # "none"

\* The socket path is absolute and its parent directory does not exist.
MissingSockDir ==
    /\ sock_path.abs
    /\ Loc(sock_path) # Root
    /\ ~IsDir(fs0, Parent(Loc(sock_path)))

\* C9: for an absolute socket path whose parent directory does not exist,
\* unix_domain_listener first creates the parent directory with every
\* missing ancestor and only then binds the socket; if the creation of the
\* directories fails, the call fails and no bind is attempted.
C9_DirectoriesBeforeSocket ==
    (UdlReached /\ pc # "udl" /\ MissingSockDir)
    => /\ ~Called("remove_stale")
       /\ pc = "udl_mkdir" \/ Called("create_dir_all")
       /\ Before("create_dir_all", "bind")
       /\ Failed("create_dir_all")
          => /\ ~Called("bind")
             /\ pc = "returned"
             /\ result = "err"
             /\ fs[Loc(sock_path)] = "none"
       /\ (pc = "udl_bind" \/ Called("bind"))
          => \A q \in Prefixes(Parent(Loc(sock_path))) : fs[q] = "dir"
       /\ pc = "udl_mkdir" => fs = fs0
       /\ fs[Loc(sock_path)] # "none" => Succeeded("bind")
       /\ \A q \in Paths :
            fs[q] # fs0[q] => q \in Prefixes(Loc(sock_path)) /\ fs0[q] = "none"

\* C9's case: the socket was bound after its directory and that directory's
\* parent had both been created.
C9_Witness ==
    /\ pc = "arm_terminate"
    /\ MissingSockDir
    /\ Cardinality(MissingDirs(fs0, Parent(Loc(sock_path)))) >= 2
    /\ fs[Loc(sock_path)] = "sock"
    /\ \A q \in Prefixes(Parent(Loc(sock_path))) : fs[q] = "dir"

\* C10: if the opening of the storage fails, start returns an error at once:
\* no entry is removed, no directory created, no socket bound, no signal
\* watch armed and no request served.
C10_OpenFailureAbortsStartup ==
    Failed("open")
    => /\ pc = "returned"
       /\ result = "err"
       /\ fs = fs0
       /\ Len(ops) = 2
       /\ ~listener
       /\ armed = {}
       /\ serve = "idle"
       /\ served = 0
       /\ storage = "closed"

\* C10's case: start has returned after the storage failed to open, with an
\* absolute socket path whose entry is still in place.
C10_Witness ==
    /\ Failed("open")
    /\ pc = "returned"
    /\ sock_path.abs
    /\ fs[Loc(sock_path)] = "sock"

\* C11: when the logger's initialisation is attempted a second time in the
\* same process, the attempt is not fatal: start goes on to open the storage.
C11_SecondLoggerInitNotFatal ==
    Failed("try_init") => (pc # "returned" \/ Called("open"))

\* C12: both signal watches are armed before the serve loop begins to accept:
\* the serve loop never accepts while a watch is unarmed, and when the arming
\* of a watch fails the serve loop never starts.
C12_WatchesArmedBeforeServing ==
    /\ serve = "accepting" => armed = Signals
    /\ (serve # "idle" \/ served > 0)
       => (Succeeded("arm_terminate") /\ Succeeded("arm_interrupt"))
    /\ (Failed("arm_terminate") \/ Failed("arm_interrupt"))
       => (serve = "idle" /\ served = 0 /\ pc = "returned" /\ result = "err")
    /\ armed # Signals => serve \in {"idle", "dropped"}

\* C12's case: the serve loop is accepting and has handled a request, with
\* both watches armed.
C12_Witness ==
    /\ serve = "accepting"
    /\ served > 0
    /\ armed = Signals

\* The life cycle of the Server that is running start: Starting (1), Serving
\* (2), Stopping (3), Stopped (4); 0 before start is called.
LifecycleRank ==
    CASE pc = "new" -> 0
      [] pc = "select" -> 2
      [] pc \in {"cleanup_persist", "cleanup_remove"} -> 3
      [] pc = "returned" -> 4
      [] OTHER -> 1

\* C13: the life cycle of one Server only moves forward; Serving is left
\* only when the serve loop has ended or a signal has arrived; nothing
\* follows Stopped; and a new cycle is a new call of start on a new Server.
C13_LifecycleForward ==
    [][/\ runs' = runs
          => /\ LifecycleRank' >= LifecycleRank
             /\ pc # "returned"
             /\ (pc = "select" /\ pc' # "select")
                => /\ winner = "none"
                   /\ winner' \in {"serve"} \cup Signals
                   /\ winner' = "serve" => serve \in {"ended_ok", "ended_err"}
                   /\ winner' \in Signals => winner' \in pending
             /\ (pc # "select" /\ pc' = "select") => pc = "arm_interrupt"
       /\ runs' # runs
          => /\ runs' = runs + 1
             /\ pc \in {"new", "returned"}
             /\ pc' = "logging"
      ]_vars

\* C13's case: a Server has gone through Starting, Serving and Stopping and
\* is Stopped.
C13_Witness ==
    /\ pc = "returned"
    /\ result = "ok"
    /\ winner # "none"
    /\ Succeeded("remove_sock")

\* C14: cleanup persists the storage, then removes the socket path: the
\* socket is never removed by cleanup before persist has been called.
C14_PersistBeforeRemoval ==
    /\ Before("persist", "remove_sock")
    /\ pc = "cleanup_remove" => Succeeded("persist")
    /\ Called("remove_sock") => (Calls("persist") = 1 /\ ops[Len(ops) - 1] = <<"persist", TRUE>>)

\* C14's case: cleanup has run both of its steps.
C14_Witness ==
    /\ pc = "returned"
    /\ Succeeded("persist")
    /\ Succeeded("remove_sock")
    /\ fs[Loc(sock_path)] = "none"

\* Every invocation of the interceptor returned Ok with the request it was
\* given.
InterceptPassedAll ==
    \A i \in DOMAIN handled :
        /\ handled[i].got.status = "ok"
        /\ handled[i].got.request = handled[i].given

\* C15 as stated: the interceptor returns every request unmodified, never
\* rejects, and emits exactly one diagnostic record per invocation.
C15_InterceptOneRecordEach ==
    /\ InterceptPassedAll
    /\ Len(diag) = Len(handled)

\* C15, amended: the interceptor returns every request, of either service
\* group, unmodified and never rejects; it emits exactly one diagnostic
\* record per invocation when the log level is DEBUG or TRACE, and none at a
\* less verbose level.
C15_InterceptPassesThrough ==
    /\ InterceptPassedAll
    /\ IF config.log_level \in {"DEBUG", "TRACE"}
       THEN diag = [i \in DOMAIN handled |-> handled[i].given]
       ELSE diag = <<>>

\* C15's case: a request with metadata, for the image service, went through
\* the interceptor under a configuration that logs debug records.
C15_Witness ==
    /\ Len(handled) = 1
    /\ handled[1].given = [service |-> "image", metadata |-> "traced"]
    /\ handled[1].got = [status |-> "ok", request |-> handled[1].given]
    /\ config.log_scope = "Crate"
    /\ diag = <<handled[1].given>>

\* C16: the filter is a function of the configuration alone: the log level
\* for the Global scope, "<crate name>=<log level>" for any other; and it is
\* what RUST_LOG holds once set_logging_verbosity has run, and what the
\* logger is built from.
C16_FilterResolved ==
    /\ Called("try_init")
       => rustLog = IF config.log_scope = "Global"
                    THEN <<config.log_level>>
                    ELSE <<CrateName, "=", config.log_level>>
    /\ Succeeded("try_init") => logFilter = rustLog
    /\ runs = 0 => rustLog = <<>>

\* C16's case: set_logging_verbosity has run with the scope of the crate.
C16_Witness ==
    /\ Succeeded("try_init")
    /\ config.log_scope = "Crate"
    /\ config.log_level = "WARN"
    /\ rustLog = <<"cri", "=", "WARN">>

\* The result of cleanup: Ok when both of its steps succeeded.
CleanupResult ==
    IF Succeeded("persist") /\ Succeeded("remove_sock") THEN "ok" ELSE "err"

\* C17: when the serve loop wins the race with a transport error, start
\* returns an error; when it wins having ended normally, start returns what
\* cleanup returns.
C17_ServeOutcomeDecides ==
    (pc = "returned" /\ winner = "serve")
    => IF Failed("serve")
       THEN result = "err"
       ELSE Succeeded("serve") /\ Called("persist") /\ result = CleanupResult

\* C17's case: start returned the transport error of the serve loop.
C17_Witness ==
    /\ pc = "returned"
    /\ winner = "serve"
    /\ Failed("serve")
    /\ result = "err"

\* C18: when start returns an error before the race (the logger, the
\* storage, the listener or a signal watch failed), neither persist nor
\* cleanup's removal of the socket is performed; when the arming of a watch
\* fails, the socket entry the bind created is still at the socket path.
C18_StartupErrorsSkipCleanup ==
    /\ (pc = "returned" /\ ~RaceReached)
       => /\ result = "err"
          /\ winner = "none"
          /\ ~Called("persist")
          /\ ~Called("remove_sock")
    /\ (Failed("arm_terminate") \/ Failed("arm_interrupt"))
       => /\ pc = "returned"
          /\ Succeeded("bind")
          /\ fs[Loc(sock_path)] = "sock"

\* C18's case: the interrupt watch could not be armed, and the socket the
\* bind created is left behind.
C18_Witness ==
    /\ pc = "returned"
    /\ Failed("arm_interrupt")
    /\ fs0[Loc(sock_path)] = "none"
    /\ fs[Loc(sock_path)] = "sock"

\* C19: when a signal branch wins the race, the outcome of the serve loop is
\* discarded and start returns what cleanup returns, also when the serve
\* loop had failed; and with a failed serve loop and a signal both ready,
\* either branch may be taken.
C19_SignalWinDiscardsServe ==
    /\ (pc = "returned" /\ winner \in Signals)
       => (result = CleanupResult /\ Called("persist") /\ ~Called("serve"))
    /\ discarded => (winner \in Signals /\ ~Called("serve"))
    /\ (pc = "select" /\ serve = "ended_err" /\ pending # {})
       => /\ ENABLED SelectServe
          /\ \A k \in pending : ENABLED SelectSignal(k)

\* C19's case: a signal won the race against a serve loop that had failed,
\* and start returned Ok after a full cleanup.
C19_Witness ==
    /\ pc = "returned"
    /\ discarded
    /\ winner \in Signals
    /\ result = "ok"
    /\ fs[Loc(sock_path)] = "none"

\* C20: once a signal is pending while the server is Serving, start
\* eventually returns; and Serving is left by nothing but a branch of the
\* race that is ready: with no signal and a serve loop that does not end,
\* no step leaves it.
C20_ShutdownEventually ==
    /\ (pc = "select" /\ pending # {}) ~> (pc = "returned")
    /\ [][(pc = "select" /\ pending = {} /\ serve \notin {"ended_ok", "ended_err"})
          => pc' = "select"]_vars

\* C20's case: start has returned after a signal that arrived while the
\* serve loop was accepting.
C20_Witness ==
    /\ pc = "returned"
    /\ winner \in Signals
    /\ delivered # {}

====
